---- MODULE Spec2Model ----
(***************************************************************************)
(* KZG polynomial commitment: trusted setup, commitment, opening and       *)
(* verification (src/src/kzg_commit.rs) over the dense polynomial type of  *)
(* src/src/polynomial.rs.                                                  *)
(*                                                                         *)
(* The pairing groups are modelled by discrete logarithms: a point of G1   *)
(* or G2 is the exponent of its generator, a number modulo the group       *)
(* order, and the pairing of a*g1 and b*g2 is a*b modulo the order.  The   *)
(* group order is a small prime, so that the scalar field, the polynomials *)
(* and the openings can be enumerated.                                     *)
(***************************************************************************)
EXTENDS Integers, Sequences, FiniteSets, TLC

\* ------------------------------------------------------------------------
\* Sizes
\* ------------------------------------------------------------------------

\* curve_order(): the prime order of G1, G2 and of the scalar field.
Order == 5

\* Largest number of coefficients of a committed polynomial.
MaxLen == 4

\* Largest setup degree.
MaxDegree == 3

\* Largest secret handed to setup (the 32-byte input may exceed the order).
MaxTau == 6

\* Largest number of coefficients of a polynomial in the tampering runs.
MaxTamperLen == 2

\* Largest number of coefficients of a dividend and of a divisor in the
\* runs that call compute_quotient on its own.
MaxDividendLen == 2

MaxDivisorLen == 3

\* ------------------------------------------------------------------------
\* Scalar field Fr (oblast_demo::Fr): arithmetic modulo the group order
\* ------------------------------------------------------------------------

Fr == 0..(Order - 1)

FrAdd(a, b) == (a + b) % Order

FrSub(a, b) == (a + Order - b) % Order

FrMul(a, b) == (a * b) % Order

FrNeg(a) == (Order - a) % Order

\* The multiplicative inverse (0 for 0), found by search.
FrInv(a) == IF a = 0 THEN 0 ELSE CHOOSE b \in Fr : (a * b) % Order = 1

FrDiv(a, b) == FrMul(a, FrInv(b))

\* ------------------------------------------------------------------------
\* Groups G1 and G2 (oblast_demo::P1, P2), as exponents of the generator
\* ------------------------------------------------------------------------

P1 == 0..(Order - 1)

P2 == 0..(Order - 1)

P1Generator == 1

P2Generator == 1

\* P1::default(): the identity of G1.
P1Default == 0

P1Add(p, q) == (p + q) % Order

P1Neg(p) == (Order - p) % Order

P2Add(p, q) == (p + q) % Order

P2Neg(p) == (Order - p) % Order

\* scalar * point; the scalar is any non-negative integer (Scalar holds the
\* raw bytes, Fr a reduced value).
MulP1(s, p) == (s * p) % Order

MulP2(s, p) == (s * p) % Order

\* verify_pairings(a1, a2, b1, b2): e(a1, a2) = e(b1, b2).
verify_pairings(a1, a2, b1, b2) == (a1 * a2) % Order = (b1 * b2) % Order

\* BigUint::modpow by square and multiply.
RECURSIVE modpow(_, _, _)
modpow(b, e, m) ==
    IF e = 0 THEN 1 % m
    ELSE IF e % 2 = 1 THEN (b * modpow(b, e - 1, m)) % m
    ELSE LET h == modpow(b, e \div 2, m) IN (h * h) % m

\* ------------------------------------------------------------------------
\* Polynomial (src/src/polynomial.rs)
\* ------------------------------------------------------------------------

\* Coefficient sequences of length lo..hi; index i+1 holds the coefficient
\* of X^i.
Polys(lo, hi) == UNION {[1..n -> Fr] : n \in lo..hi}

\* The loop of evalaute, from index i (0-based) on.
RECURSIVE EvalLoop(_, _, _, _)
EvalLoop(coefficients, i, sum, variable) ==
    IF i >= Len(coefficients) THEN sum
    ELSE EvalLoop(coefficients, i + 1,
                  FrAdd(sum, FrMul(coefficients[i + 1], variable)),
                  FrMul(variable, variable))

\* Polynomial::evalaute: indexing coefficients[0] panics on an empty vector.
evalaute(coefficients, x) ==
    IF Len(coefficients) = 0
    THEN [status |-> "panic", value |-> 0]
    ELSE [status |-> "ok", value |-> EvalLoop(coefficients, 1, coefficients[1], x)]

\* ------------------------------------------------------------------------
\* KZG (src/src/kzg_commit.rs)
\* ------------------------------------------------------------------------

NoPP == [points_in_g1 |-> << >>, point_in_g2 |-> 0]

\* setup_internal with the loop 0..degree in place of 0..=degree.
setup_internal_exclusive(tau, degree) ==
    IF tau > Order
    THEN [status |-> "SecretMustBeLessThanTheOrderOfTheGroup",
          public_parameter |-> NoPP]
    ELSE [status |-> "ok",
          public_parameter |->
            [points_in_g1 |->
                [k \in 1..degree |->
                    MulP1(modpow(tau, k - 1, Order), P1Generator)],
             point_in_g2 |-> MulP2(tau, P2Generator)]]

\* KZG::setup_internal
setup_internal(tau, degree) ==
    IF tau > Order
    THEN [status |-> "SecretMustBeLessThanTheOrderOfTheGroup",
          public_parameter |-> NoPP]
    ELSE [status |-> "ok",
          public_parameter |->
            [points_in_g1 |->
                [k \in 1..(degree + 1) |->
                    MulP1(modpow(tau, k - 1, Order), P1Generator)],
             point_in_g2 |-> MulP2(tau, P2Generator)]]

\* The zip loop of commit, from pair k (1-based) on.
RECURSIVE CommitLoop(_, _, _, _)
CommitLoop(coefficients, basis, k, result) ==
    IF k > Len(coefficients) \/ k > Len(basis) THEN result
    ELSE CommitLoop(coefficients, basis, k + 1,
                    P1Add(result, MulP1(coefficients[k], basis[k])))

\* commit with the accumulator started at the generator in place of the
\* identity.
commit_from_generator(public_parameter, coefficients) ==
    [status |-> "ok",
     element |-> CommitLoop(coefficients, public_parameter.points_in_g1, 1, P1Generator)]

\* KZG::commit
commit(public_parameter, coefficients) ==
    [status |-> "ok",
     element |-> CommitLoop(coefficients, public_parameter.points_in_g1, 1, P1Default)]

\* compute_quotient without the final reverse: the quotient stays highest
\* power first.
ReverseForgotten(s) == s

\* Vec::reverse
Reverse(s) == [k \in 1..Len(s) |-> s[Len(s) + 1 - k]]

\* The while loop of compute_quotient.  dividend_pos and difference are the
\* 0-based positions of the code; a position of -1 stands for the usize a
\* wrapping subtraction leaves (usize::MAX, which `as isize` reads as -1).
\* coefficients is the quotient as pushed, highest power first; each
\* division step pushes one.  overflow_checks is the build's setting: a
\* usize subtraction below 0 panics with it and wraps without it.
RECURSIVE QuotientLoop(_, _, _, _, _, _)
QuotientLoop(dividend, divisor, coefficients, dividend_pos, difference, overflow_checks) ==
    IF difference < 0
    THEN [status |-> "ok", coefficients |-> Reverse(coefficients),
          steps |-> Len(coefficients), underflow |-> FALSE]
    ELSE IF dividend_pos < 0 \/ Len(divisor) = 0
    THEN \* dividend[dividend_pos] or divisor[divisor_pos] is out of bounds
         [status |-> "panic", coefficients |-> << >>,
          steps |-> Len(coefficients), underflow |-> FALSE]
    ELSE LET divisor_pos == Len(divisor) - 1
             term_quotient == FrDiv(dividend[dividend_pos + 1], divisor[divisor_pos + 1])
             reduced == [j \in 1..Len(dividend) |->
                            IF j - 1 >= difference /\ j - 1 <= difference + divisor_pos
                            THEN FrSub(dividend[j],
                                       FrMul(divisor[j - difference], term_quotient))
                            ELSE dividend[j]]
             pushed == Append(coefficients, term_quotient)
         IN  IF dividend_pos = 0
             THEN \* dividend_pos -= 1 goes below 0; when it wraps, difference
                  \* is -1 and the loop ends
                  IF overflow_checks
                  THEN [status |-> "panic", coefficients |-> << >>,
                        steps |-> Len(pushed), underflow |-> TRUE]
                  ELSE [status |-> "ok", coefficients |-> Reverse(pushed),
                        steps |-> Len(pushed), underflow |-> TRUE]
             ELSE QuotientLoop(reduced, divisor, pushed, dividend_pos - 1,
                               difference - 1, overflow_checks)

\* compute_quotient: len() - 1 on an empty vector goes below 0 in usize,
\* before the signed difference is taken.
compute_quotient(dividend, divisor, overflow_checks) ==
    LET underflow == Len(dividend) = 0 \/ Len(divisor) = 0
        loop == QuotientLoop(dividend, divisor, << >>, Len(dividend) - 1,
                             (Len(dividend) - 1) - (Len(divisor) - 1), overflow_checks)
    IN  IF underflow /\ overflow_checks
        THEN [status |-> "panic", coefficients |-> << >>, steps |-> 0,
              underflow |-> TRUE]
        ELSE [loop EXCEPT !.underflow = loop.underflow \/ underflow]

NoOpening == [status |-> "none", value |-> 0, proof |-> 0]

\* The divisor with the point not negated: X + point.
DivisorNotNegated(z) == <<z, 1>>

\* The divisor X - point of open_at, lowest power first.
Divisor(z) == <<FrNeg(z), 1>>

\* Commitment::open_at on the committed polynomial; the quotient is kept
\* beside the opening it yields.
open_at(public_parameter, coefficients, z, overflow_checks) ==
    LET result == evalaute(coefficients, z)
        divisor == Divisor(z)
        quotient_polynomial == compute_quotient(coefficients, divisor, overflow_checks)
        c == commit(public_parameter, quotient_polynomial.coefficients)
    IN  IF result.status # "ok" \/ quotient_polynomial.status # "ok"
        THEN [opening |-> [status |-> "panic", value |-> 0, proof |-> 0],
              quotient |-> << >>]
        ELSE [opening |-> [status |-> "ok", value |-> result.value, proof |-> c.element],
              quotient |-> quotient_polynomial.coefficients]

\* verify with the claimed value left out of the left-hand side.
verify_without_value(value, proof, input, element, public_parameter) ==
    LET z_p2 == MulP2(input, P2Generator)
        s_minus_z == P2Add(public_parameter.point_in_g2, P2Neg(z_p2))
    IN  verify_pairings(element, P2Generator, proof, s_minus_z)

\* verify with the point added to, not subtracted from, the G2 element.
verify_point_added(value, proof, input, element, public_parameter) ==
    LET y_p1 == MulP1(value, P1Generator)
        commitment_minus_y == P1Add(element, P1Neg(y_p1))
        z_p2 == MulP2(input, P2Generator)
        s_plus_z == P2Add(public_parameter.point_in_g2, z_p2)
    IN  verify_pairings(commitment_minus_y, P2Generator, proof, s_plus_z)

\* Opening::verify
verify(value, proof, input, element, public_parameter) ==
    LET y_p1 == MulP1(value, P1Generator)
        commitment_minus_y == P1Add(element, P1Neg(y_p1))
        z_p2 == MulP2(input, P2Generator)
        s_minus_z == P2Add(public_parameter.point_in_g2, P2Neg(z_p2))
    IN  verify_pairings(commitment_minus_y, P2Generator, proof, s_minus_z)

\* ------------------------------------------------------------------------
\* State: one run of the pipeline setup -> commit -> open -> verify
\* ------------------------------------------------------------------------

VARIABLES
    pc,           \* "start", "setup", "committed", "opened", "verified", "divided"
    secret,       \* the tau handed to setup
    degree,       \* the degree handed to setup
    kzg,          \* the Result of setup
    polynomial,   \* the coefficients of the committed polynomial
    commitment,   \* the Result of commit
    point,        \* the evaluation point
    quotient,     \* the quotient polynomial open_at computed
    opening,      \* the opening under verification
    origin,       \* where the opening comes from
    accepted,     \* the result of verify
    division      \* a direct call of compute_quotient and its result

vars == <<pc, secret, degree, kzg, polynomial, commitment, point, quotient,
          opening, origin, accepted, division>>

NoKZG == [status |-> "none", public_parameter |-> NoPP]

NoCommitment == [status |-> "none", element |-> 0]

NoDivision ==
    [dividend |-> << >>, divisor |-> << >>, overflow_checks |-> FALSE,
     result |-> [status |-> "none", coefficients |-> << >>, steps |-> 0,
                 underflow |-> FALSE]]

Init ==
    /\ pc = "start"
    /\ secret = 0
    /\ degree = 0
    /\ kzg = NoKZG
    /\ polynomial = << >>
    /\ commitment = NoCommitment
    /\ point = 0
    /\ quotient = << >>
    /\ opening = NoOpening
    /\ origin = "none"
    /\ accepted = FALSE
    /\ division = NoDivision

\* KZG::new(tau, d), for a secret of Taus and a degree of Degrees.
Setup(Taus, Degrees) ==
    /\ pc = "start"
    /\ \E tau \in Taus, d \in Degrees :
        /\ secret' = tau
        /\ degree' = d
        /\ kzg' = setup_internal(tau, d)
    /\ pc' = "setup"
    /\ UNCHANGED <<polynomial, commitment, point, quotient, opening, origin, accepted, division>>

\* KZG::new_rand(d): the secret is resampled until it is below the order.
SetupRandom(Taus, Degrees) ==
    /\ pc = "start"
    /\ \E s \in Taus, d \in Degrees :
        /\ s < Order
        /\ secret' = s
        /\ degree' = d
        /\ kzg' = setup_internal(s, d)
    /\ pc' = "setup"
    /\ UNCHANGED <<polynomial, commitment, point, quotient, opening, origin, accepted, division>>

\* KZG::commit(&setup, &polynomial), for a polynomial of F, on the public
\* parameter of a setup that succeeded.
Commit(F) ==
    /\ pc = "setup"
    /\ kzg.status = "ok"
    /\ \E f \in F :
        /\ polynomial' = f
        /\ commitment' = commit(kzg.public_parameter, f)
    /\ pc' = "committed"
    /\ UNCHANGED <<secret, degree, kzg, point, quotient, opening, origin, accepted, division>>

\* commitment.open_at(z)
OpenAt ==
    /\ pc = "committed"
    /\ commitment.status = "ok"
    /\ \E z \in Fr, overflow_checks \in BOOLEAN :
        \E o \in {open_at(kzg.public_parameter, polynomial, z, overflow_checks)} :
            /\ opening' = o.opening
            /\ quotient' = o.quotient
            /\ point' = z
    /\ pc' = "opened"
    /\ origin' = "open_at"
    /\ UNCHANGED <<secret, degree, kzg, polynomial, commitment, accepted, division>>

\* compute_quotient(&dividend, &divisor) called on its own, for a dividend
\* of Dividends and a divisor of Divisors, in a build with or without
\* overflow checks.
Divide(Dividends, Divisors) ==
    /\ pc = "start"
    /\ \E dividend \in Dividends, divisor \in Divisors, overflow_checks \in BOOLEAN :
        division' = [dividend |-> dividend, divisor |-> divisor,
                     overflow_checks |-> overflow_checks,
                     result |-> compute_quotient(dividend, divisor, overflow_checks)]
    /\ pc' = "divided"
    /\ UNCHANGED <<secret, degree, kzg, polynomial, commitment, point, quotient,
                   opening, origin, accepted>>

\* An opening built by hand from a value and a proof, for a point.
Forge ==
    /\ pc = "committed"
    /\ commitment.status = "ok"
    /\ \E z \in Fr, v \in Fr, p \in P1 :
        /\ opening' = [status |-> "ok", value |-> v, proof |-> p]
        /\ point' = z
    /\ pc' = "opened"
    /\ origin' = "forged"
    /\ UNCHANGED <<secret, degree, kzg, polynomial, commitment, quotient, accepted, division>>

\* opening.verify(&point, &commitment)
Verify ==
    /\ pc = "opened"
    /\ opening.status = "ok"
    /\ pc' = "verified"
    /\ accepted' = verify(opening.value, opening.proof, point, commitment.element,
                          kzg.public_parameter)
    /\ UNCHANGED <<secret, degree, kzg, polynomial, commitment, point, quotient,
                   opening, origin, division>>

\* The value of an accepted opening is replaced; proof, point and
\* commitment stay.
TamperValue ==
    /\ pc = "verified"
    /\ accepted
    /\ origin \in {"open_at", "forged"}
    /\ \E v \in Fr \ {opening.value} : opening' = [opening EXCEPT !.value = v]
    /\ origin' = "tampered_value"
    /\ pc' = "opened"
    /\ accepted' = FALSE
    /\ UNCHANGED <<secret, degree, kzg, polynomial, commitment, point, quotient, division>>

\* The proof of an accepted opening is replaced; value, point and
\* commitment stay.
TamperProof ==
    /\ pc = "verified"
    /\ accepted
    /\ origin \in {"open_at", "forged"}
    /\ \E p \in P1 \ {opening.proof} : opening' = [opening EXCEPT !.proof = p]
    /\ origin' = "tampered_proof"
    /\ pc' = "opened"
    /\ accepted' = FALSE
    /\ UNCHANGED <<secret, degree, kzg, polynomial, commitment, point, quotient, division>>

\* The secrets, degrees and polynomials of the runs.
Secrets == 0..MaxTau

Degrees == 0..MaxDegree

Polynomials == Polys(0, MaxLen)

Next ==
    \/ SetupRandom(Secrets, Degrees)
    \/ Setup(Secrets, Degrees)
    \/ Commit(Polynomials)
    \/ OpenAt
    \/ Verify

Spec == Init /\ [][Next]_vars

\* The tampering runs: short polynomials under a setup of their largest
\* length, every opening.
TamperDegrees == {MaxTamperLen}

TamperPolynomials == Polys(0, MaxTamperLen)

NextTamper ==
    \/ SetupRandom(Secrets, TamperDegrees)
    \/ Setup(Secrets, TamperDegrees)
    \/ Commit(TamperPolynomials)
    \/ OpenAt
    \/ Forge
    \/ Verify
    \/ TamperValue
    \/ TamperProof

SpecTamper == Init /\ [][NextTamper]_vars

\* The division runs: compute_quotient on its own, for short dividends and
\* divisors of every length up to one more, and the pipeline on constant
\* polynomials.
Dividends == Polys(0, MaxDividendLen)

Divisors == Polys(0, MaxDivisorLen)

ConstantPolynomials == Polys(1, 1)

NextQuotient ==
    \/ Divide(Dividends, Divisors)
    \/ SetupRandom(Secrets, Degrees)
    \/ Setup(Secrets, Degrees)
    \/ Commit(ConstantPolynomials)
    \/ OpenAt
    \/ Verify

SpecQuotient == Init /\ [][NextQuotient]_vars

\* ------------------------------------------------------------------------
\* Reference definitions the properties compare the code against
\* ------------------------------------------------------------------------

\* b^e in the scalar field by repeated multiplication.
RECURSIVE Pow(_, _)
Pow(b, e) == IF e = 0 THEN 1 % Order ELSE (b * Pow(b, e - 1)) % Order

\* f(x) by Horner's rule, highest coefficient innermost.
RECURSIVE Horner(_, _)
Horner(f, x) ==
    IF Len(f) = 0 THEN 0 ELSE (f[1] + x * Horner(Tail(f), x)) % Order

\* The sum of the terms t[k], k in lo..hi, in the scalar field.
RECURSIVE SumTerms(_, _, _)
SumTerms(t, lo, hi) ==
    IF lo > hi THEN 0 ELSE (t[lo] + SumTerms(t, lo + 1, hi)) % Order

\* The exact quotient of f(X) - f(z) by X - z: the coefficient of X^j is
\* the sum over i > j of f_i * z^(i-j-1).
ExactQuotient(f, z) ==
    [j \in 1..(Len(f) - 1) |->
        SumTerms([i \in 1..Len(f) |-> f[i] * Pow(z, IF i > j THEN i - j - 1 ELSE 0)],
                 j + 1, Len(f))]

\* Coefficient k (1-based) of q, 0 outside q.
Coef(q, k) == IF k >= 1 /\ k <= Len(q) THEN q[k] ELSE 0

\* q(X) * (X - z) + r, coefficient by coefficient.
Reconstruct(q, z, r) ==
    [j \in 1..(Len(q) + 1) |->
        (Coef(q, j - 1) + (Order - 1) * z * Coef(q, j) + (IF j = 1 THEN r ELSE 0)) % Order]

Min(a, b) == IF a < b THEN a ELSE b

\* The first n entries of s.
Truncate(s, n) == [k \in 1..Min(n, Len(s)) |-> s[k]]

Opened == pc \in {"opened", "verified"} /\ origin = "open_at"

Fits == Len(polynomial) >= 1 /\ Len(polynomial) <= degree + 1

\* ------------------------------------------------------------------------
\* Properties
\* ------------------------------------------------------------------------

\* C1: end-to-end completeness.  For a secret below the group order and a
\* polynomial of 1 to degree+1 coefficients, the opening open_at returns is
\* accepted by verify.
C1_Completeness ==
    (pc = "verified" /\ origin = "open_at" /\ secret < Order /\ Fits) => accepted

\* C2: polynomial evaluation.  For a non-empty polynomial, evalaute returns
\* the sum of c_i * x^i, the value Horner's rule gives.
C2_EvaluateIsHorner ==
    (Opened /\ Len(polynomial) >= 1) =>
        /\ opening.status = "ok"
        /\ opening.value = Horner(polynomial, point)

\* C3: opening proof.  For a polynomial of 1 to degree+1 coefficients, the
\* proof of open_at is the commitment to the exact quotient of f(X) - f(z) by
\* X - z, which is q(tau) times the G1 generator.
C3_ProofIsQuotientCommitment ==
    (Opened /\ Fits) =>
        LET q == ExactQuotient(polynomial, point)
        IN  /\ opening.status = "ok"
            /\ opening.proof = commit(kzg.public_parameter, q).element
            /\ opening.proof = MulP1(Horner(q, secret), P1Generator)

\* C3 witness: an opening of a polynomial of degree 2 or more that fits,
\* with a quotient whose commitment is not the identity.
C3_Witness ==
    /\ Opened /\ Fits
    /\ Len(polynomial) >= 3
    /\ polynomial[Len(polynomial)] # 0
    /\ point # 0
    /\ secret # 0
    /\ opening.proof # P1Default

\* C4: setup validation.  setup fails with the secret-exceeds-group-order
\* error exactly when the secret is greater than or equal to the order.
C4_SetupRejectsFromOrder ==
    (pc # "start") =>
        ((kzg.status = "SecretMustBeLessThanTheOrderOfTheGroup") <=> (secret >= Order))

\* C5: public-parameter structure.  For a secret below the order, setup
\* returns degree+1 points of G1, point i being tau^i times the generator
\* (point 0 the generator itself), and tau times the generator of G2.
C5_PublicParameterStructure ==
    (pc # "start" /\ secret < Order) =>
        /\ kzg.status = "ok"
        /\ Len(kzg.public_parameter.points_in_g1) = degree + 1
        /\ \A i \in 0..degree :
            kzg.public_parameter.points_in_g1[i + 1] = MulP1(Pow(secret, i), P1Generator)
        /\ kzg.public_parameter.points_in_g1[1] = P1Generator
        /\ kzg.public_parameter.point_in_g2 = MulP2(secret, P2Generator)

\* C5 witness: a setup of degree 2 or more with the secret 0.
C5_Witness ==
    /\ pc = "setup"
    /\ secret = 0
    /\ degree >= 2
    /\ kzg.status = "ok"

\* C6: commitment with truncation.  commit always succeeds; its element is
\* the sum of coefficient_i * points_in_g1[i] over the shorter of the two
\* lengths, from the identity, and equals the commitment to the polynomial
\* truncated to the number of basis points.
C6_CommitTruncates ==
    (pc \in {"committed", "opened", "verified"}) =>
        LET basis == kzg.public_parameter.points_in_g1
            n == Min(Len(polynomial), Len(basis))
        IN  /\ commitment.status = "ok"
            /\ commitment.element =
                    SumTerms([k \in 1..n |-> polynomial[k] * basis[k]], 1, n)
            /\ commitment.element =
                    commit(kzg.public_parameter, Truncate(polynomial, Len(basis))).element

\* C6 witness: a committed polynomial with more coefficients than the
\* setup has basis points, the excess ones not zero.
C6_Witness ==
    /\ pc = "committed"
    /\ Len(polynomial) > Len(kzg.public_parameter.points_in_g1)
    /\ polynomial[Len(polynomial)] # 0
    /\ commitment.element # P1Default

\* C7: division round trip.  For a non-empty polynomial f and a point z,
\* the quotient q of compute_quotient satisfies q(X) * (X - z) + f(z) = f,
\* coefficient by coefficient, q in ascending order.
C7_DivisionRoundTrip ==
    (Opened /\ Len(polynomial) >= 1) =>
        /\ opening.status = "ok"
        /\ Reconstruct(quotient, point, Horner(polynomial, point)) = polynomial

\* C7 witness: the quotient of a polynomial of degree 3, not a palindrome,
\* at a point that is not 0.
C7_Witness ==
    /\ Opened
    /\ Len(polynomial) >= 4
    /\ Len(quotient) >= 3
    /\ quotient # Reverse(quotient)
    /\ point # 0

\* C8: a tampered value is rejected.  When the value of an accepted opening
\* is replaced by a different scalar, verify returns false.
C8_TamperedValueRejected ==
    (pc = "verified" /\ origin = "tampered_value") => ~accepted

\* C8 witness: verify has run on an opening whose value was replaced, the
\* proof not being the identity.
C8_Witness ==
    /\ pc = "verified"
    /\ origin = "tampered_value"
    /\ opening.proof # P1Default
    /\ Len(polynomial) >= 2

\* C9 as stated: a tampered proof is rejected for every secret below the
\* order and every point, the point equal to the secret included.
C9_TamperedProofRejectedAlways ==
    (pc = "verified" /\ origin = "tampered_proof" /\ secret < Order) => ~accepted

\* C9 amended: a tampered proof is rejected for every secret below the
\* order and every point different from the secret.
C9_TamperedProofRejected ==
    (pc = "verified" /\ origin = "tampered_proof" /\ secret < Order /\ point # secret)
        => ~accepted

\* C9 witness: verify has run on an opening whose proof was replaced, at a
\* point different from the secret.
C9_Witness ==
    /\ pc = "verified"
    /\ origin = "tampered_proof"
    /\ secret < Order
    /\ point # secret
    /\ Len(polynomial) >= 2

\* C10: the empty polynomial is an error.  evalaute, commit and open_at
\* each fail on it; commit returns no Commitment.
C10_EmptyPolynomialFails ==
    (pc \in {"committed", "opened", "verified"} /\ Len(polynomial) = 0) =>
        /\ commitment.status # "ok"
        /\ evalaute(polynomial, point).status # "ok"
        /\ (pc = "opened" => opening.status # "ok")

\* C11: low-degree dividend guard.  Whenever the dividend has fewer
\* coefficients than the divisor (the empty dividend included),
\* compute_quotient returns the empty quotient, with no division step and
\* no unsigned subtraction going below 0; and open_at on a polynomial [c]
\* returns the value c and the identity of G1 as proof.
C11_LowDegreeGuard ==
    /\ (pc = "divided" /\ Len(division.dividend) < Len(division.divisor)) =>
            /\ division.result.status = "ok"
            /\ division.result.coefficients = << >>
            /\ division.result.steps = 0
            /\ ~division.result.underflow
    /\ (Opened /\ Len(polynomial) = 1) =>
            /\ opening.status = "ok"
            /\ opening.value = polynomial[1]
            /\ opening.proof = P1Default

====
